---- MODULE Spec2Model ----
\* Model of threadSafeArduino.h (namespace threadSafe): the lazily created
\* FreeRTOS mutexes, the LockGuard and the wrapped Arduino I/O calls, executed
\* by a small set of preemptively interleaved execution contexts.
\* Also the two global pointers of TimeProviderBase.cpp and LoggingBase.cpp
\* with their setters.
EXTENDS Integers, FiniteSets, Sequences, TLC

\* ---------------------------------------------------------------- bounds
\* number of concurrent execution contexts (tasks or interrupt handlers)
NumTasks == 2
\* size of the per-pin lock table: the #ifndef default of 48 overridden by a
\* build that defines THREADSAFE_MAX_GPIO_PINS as 2
THREADSAFE_MAX_GPIO_PINS == 2
\* largest finite ticks_to_wait a caller passes to digitalWriteTry
MaxTicks == 1
\* number of time providers, and of loggers, that callers own
MaxObjects == 2
\* number of mutexes the heap can hold before xSemaphoreCreateMutex fails
HeapMutexes == 7

Tasks == 1..NumTasks
\* pin arguments: every table index and two numbers past the table
Pins == 0..(THREADSAFE_MAX_GPIO_PINS + 1)
TablePins == 0..(THREADSAFE_MAX_GPIO_PINS - 1)
Ticks == 0..MaxTicks
\* the channel arguments callers pass to analogRead and touchRead
Channels == 0..1

\* ---------------------------------------------------------------- handles
\* A SemaphoreHandle_t is <<kind, index, generation>>; the generation tells
\* two mutexes created for the same slot apart.
NULL == <<"null", 0, 0>>
NoOwner == 0

TableRes == <<"table", 0>>
TouchRes == <<"touch", 0>>
AnalogRes == <<"analog", 0>>
FallbackRes == <<"fallback", 0>>
GpioRes(p) == <<"gpio", p>>
Resources == {TableRes, TouchRes, AnalogRes, FallbackRes} \cup {GpioRes(p) : p \in TablePins}
\* the build with THREADSAFE_GPIO_GLOBAL_LOCK: one mutex for every GPIO pin,
\* no table and no fallback
GlobalRes == <<"global", 0>>
ResourcesGlobal == {TableRes, TouchRes, AnalogRes, GlobalRes}

GpioOps == {"pinMode", "digitalWrite", "digitalRead"}
GuardOps == GpioOps \cup {"analogRead", "touchRead"}
AllOps == GuardOps \cup {"digitalWriteTry", "init"}

VARIABLES
  pc,          \* position of each context inside its current call
  op,          \* the wrapped operation the context is (or was last) in
  pin,         \* the pin argument of that call
  isr,         \* xPortInIsrContext() for that call
  ticks,       \* remaining ticks_to_wait of a digitalWriteTry
  m,           \* the handle the call resolved (LockGuard::m / local m)
  result,      \* return value of digitalWriteTry
  created,     \* resources whose mutex this call created
  hwCalls,     \* underlying hardware calls this call has completed
  gpioLocks,   \* detail::gpioLocks() table
  statics,     \* function-local static handles (table, touch, analog, fallback)
  owner,       \* holder of every mutex that exists
  createCount, \* successful xSemaphoreCreateMutex calls per resource
  halted,      \* configASSERT failed or the scheduler was corrupted
  gTimeProvider, \* TimeProviderBase* gTimeProvider
  gLogger,     \* LoggingBase* gLogger
  setPc,       \* position of each context inside setTimeProvider / setLogger
  setOp,       \* the setter the context is (or was last) in
  setArg       \* the pointer argument of that call

\* the state of namespace threadSafe, and the two global pointers with their setters
threadSafeVars == <<pc, op, pin, isr, ticks, m, result, created, hwCalls,
                    gpioLocks, statics, owner, createCount, halted>>
setterVars == <<gTimeProvider, gLogger, setPc, setOp, setArg>>
vars == <<threadSafeVars, setterVars>>

callVars == <<op, pin, isr, ticks>>
lockVars == <<gpioLocks, statics, owner, createCount, halted>>

\* ---------------------------------------------------------------- helpers
RECURSIVE SumCount(_, _)
SumCount(f, S) == IF S = {} THEN 0
                  ELSE LET x == CHOOSE y \in S : TRUE
                       IN f[x] + SumCount(f, S \ {x})

HeapUsed == SumCount(createCount, DOMAIN createCount)

\* xSemaphoreCreateMutex: a fresh handle, or nullptr when allocation fails
xSemaphoreCreateMutex(r, ok) ==
  IF ok /\ HeapUsed < HeapMutexes
  THEN <<r[1], r[2], createCount[r] + 1>>
  ELSE NULL

\* configASSERT(m != nullptr) in createMutex stops the process
\* (variant: the assertion compiled out)
createMutexNoAssert(h) == FALSE
createMutexHalts(h) == h = NULL

IsFree(h) == h \in DOMAIN owner /\ owner[h] = NoOwner
HeldByOther(h, t) == h \in DOMAIN owner /\ owner[h] \notin {NoOwner, t}
Holds(t) == {h \in DOMAIN owner : owner[h] = t}

inIsr(t) == isr[t]

\* the resource class an operation's hardware call touches
ResourceOf(o, p) ==
  IF o \in GpioOps \cup {"digitalWriteTry"}
  THEN (IF p >= THREADSAFE_MAX_GPIO_PINS THEN FallbackRes ELSE GpioRes(p))
  ELSE IF o = "analogRead" THEN AnalogRes
  ELSE IF o = "touchRead" THEN TouchRes
  ELSE TableRes

\* ---------------------------------------------------------------- Init
\* pointers <<object, index>>: nullptr, the library's own objects, and the objects callers own
nullptr == <<"nullptr", 0>>
gNullTimeProvider == <<"gNullTimeProvider", 0>>
serialLogger == <<"_serialLogger", 0>>
nullLogger == <<"_nullLogger", 0>>
UserTimeProviders == {<<"TimeProviderBase", i>> : i \in 1..MaxObjects}
UserLoggers == {<<"LoggingBase", i>> : i \in 1..MaxObjects}
\* what a caller can pass: gNullTimeProvider is extern, the two loggers are
\* file-static
TimeProviderArgs == {nullptr, gNullTimeProvider} \cup UserTimeProviders
LoggerArgs == {nullptr} \cup UserLoggers

\* `TimeProviderBase* gTimeProvider;` is zero-initialised,
\* `LoggingBase* gLogger = &_serialLogger;`
InitSetters ==
  /\ gTimeProvider = nullptr
  /\ gLogger = serialLogger
  /\ setPc = [t \in Tasks |-> "idle"]
  /\ setOp = [t \in Tasks |-> "none"]
  /\ setArg = [t \in Tasks |-> nullptr]

Init ==
  /\ InitSetters
  /\ pc = [t \in Tasks |-> "idle"]
  /\ op = [t \in Tasks |-> "none"]
  /\ pin = [t \in Tasks |-> 0]
  /\ isr = [t \in Tasks |-> FALSE]
  /\ ticks = [t \in Tasks |-> 0]
  /\ m = [t \in Tasks |-> NULL]
  /\ result = [t \in Tasks |-> FALSE]
  /\ created = [t \in Tasks |-> {}]
  /\ hwCalls = [t \in Tasks |-> 0]
  /\ gpioLocks = [p \in TablePins |-> NULL]
  /\ statics = [r \in {TableRes, TouchRes, AnalogRes, FallbackRes} |-> NULL]
  /\ owner = <<>>
  /\ createCount = [r \in Resources |-> 0]
  /\ halted = FALSE

\* the state after construction of the build with THREADSAFE_GPIO_GLOBAL_LOCK
InitGlobal ==
  /\ InitSetters
  /\ pc = [t \in Tasks |-> "idle"]
  /\ op = [t \in Tasks |-> "none"]
  /\ pin = [t \in Tasks |-> 0]
  /\ isr = [t \in Tasks |-> FALSE]
  /\ ticks = [t \in Tasks |-> 0]
  /\ m = [t \in Tasks |-> NULL]
  /\ result = [t \in Tasks |-> FALSE]
  /\ created = [t \in Tasks |-> {}]
  /\ hwCalls = [t \in Tasks |-> 0]
  /\ gpioLocks = <<>>
  /\ statics = [r \in ResourcesGlobal |-> NULL]
  /\ owner = <<>>
  /\ createCount = [r \in ResourcesGlobal |-> 0]
  /\ halted = FALSE

\* #ifndef THREADSAFE_GPIO_GLOBAL_LOCK: the build that defines the macro is
\* the one whose statics hold gpioGlobalLock's mutex
THREADSAFE_GPIO_GLOBAL_LOCK == GlobalRes \in DOMAIN statics

\* ---------------------------------------------------------------- pieces
\* start of a call: the arguments are bound, the locals are fresh
Call(t, o, p, i, k, start) ==
  /\ ~halted
  /\ pc[t] = "idle"
  /\ op' = [op EXCEPT ![t] = o]
  /\ pin' = [pin EXCEPT ![t] = p]
  /\ isr' = [isr EXCEPT ![t] = i]
  /\ ticks' = [ticks EXCEPT ![t] = k]
  /\ m' = [m EXCEPT ![t] = NULL]
  /\ result' = [result EXCEPT ![t] = FALSE]
  /\ created' = [created EXCEPT ![t] = {}]
  /\ hwCalls' = [hwCalls EXCEPT ![t] = 0]
  /\ pc' = [pc EXCEPT ![t] = start]
  /\ UNCHANGED lockVars
  /\ UNCHANGED setterVars

\* the wrapper returns r: its locals go out of scope
Return(t, r) ==
  /\ pc' = [pc EXCEPT ![t] = "idle"]
  /\ result' = [result EXCEPT ![t] = r]
  /\ pin' = [pin EXCEPT ![t] = 0]
  /\ ticks' = [ticks EXCEPT ![t] = 0]
  /\ m' = [m EXCEPT ![t] = NULL]
  /\ created' = [created EXCEPT ![t] = {}]
  /\ hwCalls' = [hwCalls EXCEPT ![t] = 0]
  /\ UNCHANGED <<op, isr>>

\* createMutex() storing into a slot: the new handle h exists and is free
Publish(r, h) ==
  /\ owner' = IF h # NULL THEN owner @@ (h :> NoOwner) ELSE owner
  /\ createCount' = IF h # NULL THEN [createCount EXCEPT ![r] = @ + 1] ELSE createCount

\* resources for which this step created a mutex
NewlyCreated == {r \in DOMAIN createCount : createCount'[r] > createCount[r]}

\* (variant: the handle is a plain local, created by every evaluation)
StaticInitNotStatic(r) ==
  \E ok \in BOOLEAN :
    LET h == xSemaphoreCreateMutex(r, ok) IN
    IF createMutexHalts(h)
    THEN /\ halted' = TRUE
         /\ UNCHANGED <<statics, owner, createCount>>
    ELSE /\ statics' = [statics EXCEPT ![r] = h]
         /\ Publish(r, h)
         /\ UNCHANGED halted

\* `static SemaphoreHandle_t m = createMutex();` for resource r: the first
\* evaluation initialises the static (C++ initialises a local static once,
\* also under concurrent first calls), later ones only read it; when the
\* configASSERT of createMutex fails the caller goes no further
StaticInit(r) ==
  IF statics[r] # NULL
  THEN UNCHANGED <<statics, owner, createCount, halted>>
  ELSE \E ok \in BOOLEAN :
         LET h == xSemaphoreCreateMutex(r, ok) IN
         IF createMutexHalts(h)
         THEN /\ halted' = TRUE
              /\ UNCHANGED <<statics, owner, createCount>>
         ELSE /\ statics' = [statics EXCEPT ![r] = h]
              /\ Publish(r, h)
              /\ UNCHANGED halted

tableLock == StaticInit(TableRes)

\* first statement of getGpioLock(pin): the range test of line 74
\* (variants: no range test; every pin sent to the fallback mutex)
getGpioLockNoRange(p) == "check"
getGpioLockOneLock(p) == "fallback"
getGpioLock(p) ==
  IF THREADSAFE_GPIO_GLOBAL_LOCK THEN "globalLock"
  ELSE IF p >= THREADSAFE_MAX_GPIO_PINS THEN "fallback" ELSE "check"

\* what a read of locks[pin] gives (the table has THREADSAFE_MAX_GPIO_PINS slots)
ReadSlot(p) == IF p \in DOMAIN gpioLocks THEN gpioLocks[p] ELSE NULL

\* where a call goes once its lock is resolved
AfterResolve(t) == IF op[t] = "digitalWriteTry" THEN "tryTake" ELSE "guard"

\* xSemaphoreTake(h, ...) succeeding for t, and xSemaphoreGive(h)
Take(h, t) == owner' = [owner EXCEPT ![h] = t]
Give(h) == owner' = IF h \in DOMAIN owner THEN [owner EXCEPT ![h] = NoOwner] ELSE owner

\* ---------------------------------------------------------------- calls
\* I is the set of contexts the callers are in: {FALSE} when every caller is a
\* task, BOOLEAN when interrupt handlers call the wrappers too
init(t) ==
  Call(t, "init", 0, FALSE, 0, "init")

pinMode(t, I) ==
  \E p \in Pins, i \in I : Call(t, "pinMode", p, i, 0, getGpioLock(p))

digitalWrite(t, I) ==
  \E p \in Pins, i \in I : Call(t, "digitalWrite", p, i, 0, getGpioLock(p))

digitalRead(t, I) ==
  \E p \in Pins, i \in I : Call(t, "digitalRead", p, i, 0, getGpioLock(p))

\* (variant: the ADC read guarded by the GPIO lock of its pin)
analogReadPinLock(t, I) ==
  \E p \in Channels, i \in I : Call(t, "analogRead", p, i, 0, getGpioLock(p))

analogRead(t, I) ==
  \E p \in Channels, i \in I : Call(t, "analogRead", p, i, 0, "analogLock")

touchRead(t, I) ==
  \E p \in Channels, i \in I : Call(t, "touchRead", p, i, 0, "touchLock")

digitalWriteTry(t, I) ==
  \E p \in Pins, i \in I, k \in Ticks :
    Call(t, "digitalWriteTry", p, i, k, "tryIsr")

\* ---------------------------------------------------------------- init()
\* (variant: an init() with an empty body)
init_noBootstrap(t) ==
  /\ ~halted
  /\ pc[t] = "init"
  /\ Return(t, FALSE)
  /\ UNCHANGED lockVars
  /\ UNCHANGED setterVars

\* (void)detail::tableLock();
init_tableLock(t) ==
  /\ ~halted
  /\ pc[t] = "init"
  /\ tableLock
  /\ IF halted'
     THEN UNCHANGED <<pc, callVars, m, result, created, hwCalls>>
     ELSE Return(t, FALSE)
  /\ UNCHANGED gpioLocks
  /\ UNCHANGED setterVars

\* ---------------------------------------------------------------- getGpioLock
\* out-of-range pin: `static SemaphoreHandle_t fallback = createMutex(); return fallback;`
getGpioLock_fallback(t) ==
  /\ ~halted
  /\ pc[t] = "fallback"
  /\ StaticInit(FallbackRes)
  /\ m' = [m EXCEPT ![t] = statics'[FallbackRes]]
  /\ created' = [created EXCEPT ![t] = @ \cup NewlyCreated]
  /\ pc' = [pc EXCEPT ![t] = IF halted' THEN @ ELSE AfterResolve(t)]
  /\ UNCHANGED <<callVars, result, hwCalls, gpioLocks>>
  /\ UNCHANGED setterVars

\* `if (locks[pin] == nullptr)` outside the table lock: an unsynchronised read,
\* which sees the slot as it is or still as the nullptr it started as
getGpioLock_check(t) ==
  /\ ~halted
  /\ pc[t] = "check"
  /\ \E seen \in {ReadSlot(pin[t]), NULL} :
       pc' = [pc EXCEPT ![t] = IF seen = NULL THEN "tableLock" ELSE "ret"]
  /\ UNCHANGED <<callVars, m, result, created, hwCalls, lockVars>>
  /\ UNCHANGED setterVars

\* the argument tableLock() of `xSemaphoreTake(tableLock(), portMAX_DELAY)`
getGpioLock_tableLock(t) ==
  /\ ~halted
  /\ pc[t] = "tableLock"
  /\ tableLock
  /\ created' = [created EXCEPT ![t] = @ \cup NewlyCreated]
  /\ pc' = [pc EXCEPT ![t] = IF halted' THEN @ ELSE "tableTake"]
  /\ UNCHANGED <<callVars, m, result, hwCalls, gpioLocks>>
  /\ UNCHANGED setterVars

\* xSemaphoreTake(tableLock(), portMAX_DELAY): waits until the mutex is free
getGpioLock_take(t) ==
  /\ ~halted
  /\ pc[t] = "tableTake"
  /\ IsFree(statics[TableRes])
  /\ Take(statics[TableRes], t)
  /\ pc' = [pc EXCEPT ![t] = "recheck"]
  /\ UNCHANGED <<callVars, m, result, created, hwCalls, gpioLocks, statics,
                 createCount, halted>>
  /\ UNCHANGED setterVars

\* the same blocking take made from an interrupt handler while the mutex is
\* held: a handler cannot be suspended, the kernel state is corrupted
getGpioLock_takeInIsr(t) ==
  /\ ~halted
  /\ pc[t] = "tableTake"
  /\ inIsr(t)
  /\ HeldByOther(statics[TableRes], t)
  /\ halted' = TRUE
  /\ UNCHANGED <<pc, callVars, m, result, created, hwCalls, gpioLocks, statics,
                 owner, createCount>>
  /\ UNCHANGED setterVars

\* `locks[pin] = createMutex();`
\* (variant: the table a plain local of gpioLocks(), fresh at every use)
CreateSlotFreshTable(t) ==
  \E ok \in BOOLEAN :
    LET r == GpioRes(pin[t])
        h == xSemaphoreCreateMutex(r, ok) IN
    IF createMutexHalts(h)
    THEN /\ halted' = TRUE
         /\ UNCHANGED <<pc, gpioLocks, owner, createCount, created>>
    ELSE /\ gpioLocks' = [p \in TablePins |-> IF p = pin[t] THEN h ELSE NULL]
         /\ Publish(r, h)
         /\ created' = [created EXCEPT ![t] = @ \cup NewlyCreated]
         /\ pc' = [pc EXCEPT ![t] = "tableGive"]
         /\ UNCHANGED halted

CreateSlot(t) ==
  \E ok \in BOOLEAN :
    LET r == GpioRes(pin[t])
        h == xSemaphoreCreateMutex(r, ok) IN
    IF createMutexHalts(h)
    THEN /\ halted' = TRUE
         /\ UNCHANGED <<pc, gpioLocks, owner, createCount, created>>
    ELSE /\ gpioLocks' = [gpioLocks EXCEPT ![pin[t]] = h]
         /\ Publish(r, h)
         /\ created' = [created EXCEPT ![t] = @ \cup NewlyCreated]
         /\ pc' = [pc EXCEPT ![t] = "tableGive"]
         /\ UNCHANGED halted

\* `if (locks[pin] == nullptr) locks[pin] = createMutex();` under the table lock
\* (variant: no second test)
getGpioLock_recheckNone(t) ==
  /\ ~halted
  /\ pc[t] = "recheck"
  /\ CreateSlot(t)
  /\ UNCHANGED <<callVars, m, result, hwCalls, statics>>
  /\ UNCHANGED setterVars

getGpioLock_recheck(t) ==
  /\ ~halted
  /\ pc[t] = "recheck"
  /\ IF ReadSlot(pin[t]) = NULL
     THEN CreateSlot(t)
     ELSE /\ pc' = [pc EXCEPT ![t] = "tableGive"]
          /\ UNCHANGED <<gpioLocks, owner, createCount, created, halted>>
  /\ UNCHANGED <<callVars, m, result, hwCalls, statics>>
  /\ UNCHANGED setterVars

\* xSemaphoreGive(tableLock());
\* (variant: the give left out)
getGpioLock_giveNone(t) ==
  /\ ~halted
  /\ pc[t] = "tableGive"
  /\ pc' = [pc EXCEPT ![t] = "ret"]
  /\ UNCHANGED <<callVars, m, result, created, hwCalls, lockVars>>
  /\ UNCHANGED setterVars

getGpioLock_give(t) ==
  /\ ~halted
  /\ pc[t] = "tableGive"
  /\ Give(statics[TableRes])
  /\ pc' = [pc EXCEPT ![t] = "ret"]
  /\ UNCHANGED <<callVars, m, result, created, hwCalls, gpioLocks, statics,
                 createCount, halted>>
  /\ UNCHANGED setterVars

\* `return locks[pin];`
getGpioLock_return(t) ==
  /\ ~halted
  /\ pc[t] = "ret"
  /\ m' = [m EXCEPT ![t] = ReadSlot(pin[t])]
  /\ pc' = [pc EXCEPT ![t] = AfterResolve(t)]
  /\ UNCHANGED <<callVars, result, created, hwCalls, lockVars>>
  /\ UNCHANGED setterVars

\* ---------------------------------------------------------------- global policy
\* getGpioLock(pin) of the global policy: `return gpioGlobalLock();`, whose
\* static m is created by the first call
\* (variant: m a plain local, created by every call)
gpioGlobalLockNotStatic(t) ==
  /\ ~halted
  /\ pc[t] = "globalLock"
  /\ StaticInitNotStatic(GlobalRes)
  /\ m' = [m EXCEPT ![t] = statics'[GlobalRes]]
  /\ created' = [created EXCEPT ![t] = @ \cup NewlyCreated]
  /\ pc' = [pc EXCEPT ![t] = IF halted' THEN @ ELSE AfterResolve(t)]
  /\ UNCHANGED <<callVars, result, hwCalls, gpioLocks>>
  /\ UNCHANGED setterVars

gpioGlobalLock(t) ==
  /\ ~halted
  /\ pc[t] = "globalLock"
  /\ StaticInit(GlobalRes)
  /\ m' = [m EXCEPT ![t] = statics'[GlobalRes]]
  /\ created' = [created EXCEPT ![t] = @ \cup NewlyCreated]
  /\ pc' = [pc EXCEPT ![t] = IF halted' THEN @ ELSE AfterResolve(t)]
  /\ UNCHANGED <<callVars, result, hwCalls, gpioLocks>>
  /\ UNCHANGED setterVars

\* ---------------------------------------------------------------- ADC, touch
analogLock(t) ==
  /\ ~halted
  /\ pc[t] = "analogLock"
  /\ StaticInit(AnalogRes)
  /\ m' = [m EXCEPT ![t] = statics'[AnalogRes]]
  /\ created' = [created EXCEPT ![t] = @ \cup NewlyCreated]
  /\ pc' = [pc EXCEPT ![t] = IF halted' THEN @ ELSE "guard"]
  /\ UNCHANGED <<callVars, result, hwCalls, gpioLocks>>
  /\ UNCHANGED setterVars

touchLock(t) ==
  /\ ~halted
  /\ pc[t] = "touchLock"
  /\ StaticInit(TouchRes)
  /\ m' = [m EXCEPT ![t] = statics'[TouchRes]]
  /\ created' = [created EXCEPT ![t] = @ \cup NewlyCreated]
  /\ pc' = [pc EXCEPT ![t] = IF halted' THEN @ ELSE "guard"]
  /\ UNCHANGED <<callVars, result, hwCalls, gpioLocks>>
  /\ UNCHANGED setterVars

\* ---------------------------------------------------------------- LockGuard
\* constructor: `if (!inIsr()) xSemaphoreTake(m, portMAX_DELAY);`
\* (variant: the take left out)
LockGuard_ctorNoTake(t) ==
  /\ ~halted
  /\ pc[t] = "guard"
  /\ pc' = [pc EXCEPT ![t] = "hw"]
  /\ UNCHANGED <<callVars, m, result, created, hwCalls, lockVars>>
  /\ UNCHANGED setterVars

LockGuard_ctor(t) ==
  /\ ~halted
  /\ pc[t] = "guard"
  /\ IF inIsr(t)
     THEN UNCHANGED owner
     ELSE /\ IsFree(m[t])
          /\ Take(m[t], t)
  /\ pc' = [pc EXCEPT ![t] = "hw"]
  /\ UNCHANGED <<callVars, m, result, created, hwCalls, gpioLocks, statics,
                 createCount, halted>>
  /\ UNCHANGED setterVars

\* the underlying ::pinMode / ::digitalWrite / ::digitalRead / ::analogRead /
\* ::touchRead: the context is inside it while pc = "hw" and leaves it here
hardwareCall(t) ==
  /\ ~halted
  /\ pc[t] = "hw"
  /\ hwCalls' = [hwCalls EXCEPT ![t] = @ + 1]
  /\ pc' = [pc EXCEPT ![t] = IF op[t] = "digitalWriteTry" THEN "tryGive" ELSE "unguard"]
  /\ UNCHANGED <<callVars, m, result, created, lockVars>>
  /\ UNCHANGED setterVars

\* destructor: `if (!inIsr()) xSemaphoreGive(m);`, then the wrapper returns
\* (variant: the give made without the inIsr() test)
LockGuard_dtorAlwaysGive(t) ==
  /\ ~halted
  /\ pc[t] = "unguard"
  /\ Give(m[t])
  /\ Return(t, FALSE)
  /\ UNCHANGED <<gpioLocks, statics, createCount, halted>>
  /\ UNCHANGED setterVars

LockGuard_dtor(t) ==
  /\ ~halted
  /\ pc[t] = "unguard"
  /\ IF inIsr(t) THEN UNCHANGED owner ELSE Give(m[t])
  /\ Return(t, FALSE)
  /\ UNCHANGED <<gpioLocks, statics, createCount, halted>>
  /\ UNCHANGED setterVars

\* ---------------------------------------------------------------- digitalWriteTry
\* `if (detail::inIsr()) return false; auto m = detail::getGpioLock(pin);`
\* (variant: no inIsr() test)
digitalWriteTry_inIsrNoCheck(t) ==
  /\ ~halted
  /\ pc[t] = "tryIsr"
  /\ pc' = [pc EXCEPT ![t] = getGpioLock(pin[t])]
  /\ UNCHANGED <<callVars, m, result, created, hwCalls, lockVars>>
  /\ UNCHANGED setterVars

digitalWriteTry_inIsr(t) ==
  /\ ~halted
  /\ pc[t] = "tryIsr"
  /\ IF inIsr(t)
     THEN Return(t, FALSE)
     ELSE /\ pc' = [pc EXCEPT ![t] = getGpioLock(pin[t])]
          /\ UNCHANGED <<callVars, m, result, created, hwCalls>>
  /\ UNCHANGED lockVars
  /\ UNCHANGED setterVars

\* xSemaphoreTake(m, ticks_to_wait) == pdTRUE: the mutex is free and is taken
digitalWriteTry_take(t) ==
  /\ ~halted
  /\ pc[t] = "tryTake"
  /\ IsFree(m[t])
  /\ Take(m[t], t)
  /\ pc' = [pc EXCEPT ![t] = "hw"]
  /\ UNCHANGED <<callVars, m, result, created, hwCalls, gpioLocks, statics,
                 createCount, halted>>
  /\ UNCHANGED setterVars

\* the mutex is held and ticks remain: one tick passes with the caller blocked
digitalWriteTry_wait(t) ==
  /\ ~halted
  /\ pc[t] = "tryTake"
  /\ ~IsFree(m[t])
  /\ ticks[t] > 0
  /\ ticks' = [ticks EXCEPT ![t] = @ - 1]
  /\ UNCHANGED <<pc, op, pin, isr, m, result, created, hwCalls, lockVars>>
  /\ UNCHANGED setterVars

\* the mutex is still held when the ticks are used up: `return false;`
\* (variant: the result of the take ignored)
digitalWriteTry_timeoutWrites(t) ==
  /\ ~halted
  /\ pc[t] = "tryTake"
  /\ ~IsFree(m[t])
  /\ ticks[t] = 0
  /\ pc' = [pc EXCEPT ![t] = "hw"]
  /\ UNCHANGED <<callVars, m, result, created, hwCalls, lockVars>>
  /\ UNCHANGED setterVars

digitalWriteTry_timeout(t) ==
  /\ ~halted
  /\ pc[t] = "tryTake"
  /\ ~IsFree(m[t])
  /\ ticks[t] = 0
  /\ Return(t, FALSE)
  /\ UNCHANGED lockVars
  /\ UNCHANGED setterVars

\* `xSemaphoreGive(m); return true;`
digitalWriteTry_give(t) ==
  /\ ~halted
  /\ pc[t] = "tryGive"
  /\ Give(m[t])
  /\ Return(t, TRUE)
  /\ UNCHANGED <<gpioLocks, statics, createCount, halted>>
  /\ UNCHANGED setterVars

\* ---------------------------------------------------------------- Next
\* one step of context t, its calls made from the contexts in I
Step(t, I) ==
  \/ init(t)
  \/ pinMode(t, I)
  \/ digitalWrite(t, I)
  \/ digitalRead(t, I)
  \/ analogRead(t, I)
  \/ touchRead(t, I)
  \/ digitalWriteTry(t, I)
  \/ init_tableLock(t)
  \/ getGpioLock_fallback(t)
  \/ getGpioLock_check(t)
  \/ getGpioLock_tableLock(t)
  \/ getGpioLock_take(t)
  \/ getGpioLock_recheck(t)
  \/ getGpioLock_give(t)
  \/ getGpioLock_return(t)
  \/ analogLock(t)
  \/ touchLock(t)
  \/ LockGuard_ctor(t)
  \/ hardwareCall(t)
  \/ LockGuard_dtor(t)
  \/ digitalWriteTry_inIsr(t)
  \/ digitalWriteTry_take(t)
  \/ digitalWriteTry_wait(t)
  \/ digitalWriteTry_timeout(t)
  \/ digitalWriteTry_give(t)

\* every caller is a task, as the header requires ("Do NOT call these from ISRs")
Next == \E t \in Tasks : Step(t, {FALSE})

Spec == Init /\ [][Next]_vars

\* interrupt handlers call the wrappers as well: the last context runs its
\* calls either as a task or as an interrupt handler
IsrContexts == {NumTasks}

NextIsr ==
  \E t \in Tasks :
    \/ Step(t, IF t \in IsrContexts THEN BOOLEAN ELSE {FALSE})
    \/ getGpioLock_takeInIsr(t)

SpecIsr == Init /\ [][NextIsr]_vars

\* the build with THREADSAFE_GPIO_GLOBAL_LOCK, every caller a task
StepGlobal(t) ==
  \/ init(t)
  \/ pinMode(t, {FALSE})
  \/ digitalWrite(t, {FALSE})
  \/ digitalRead(t, {FALSE})
  \/ analogRead(t, {FALSE})
  \/ touchRead(t, {FALSE})
  \/ digitalWriteTry(t, {FALSE})
  \/ init_tableLock(t)
  \/ gpioGlobalLock(t)
  \/ analogLock(t)
  \/ touchLock(t)
  \/ LockGuard_ctor(t)
  \/ hardwareCall(t)
  \/ LockGuard_dtor(t)
  \/ digitalWriteTry_inIsr(t)
  \/ digitalWriteTry_take(t)
  \/ digitalWriteTry_wait(t)
  \/ digitalWriteTry_timeout(t)
  \/ digitalWriteTry_give(t)

NextGlobal == \E t \in Tasks : StepGlobal(t)

SpecGlobal == InitGlobal /\ [][NextGlobal]_vars

\* either build, every caller a task
InitBoth == Init \/ InitGlobal

NextBoth == Next \/ NextGlobal

SpecBoth == InitBoth /\ [][NextBoth]_vars

\* ---------------------------------------------------------------- setters
\* entry of a setter with its argument bound
CallSetter(t, o, a, start) ==
  /\ setPc[t] = "idle"
  /\ setOp' = [setOp EXCEPT ![t] = o]
  /\ setArg' = [setArg EXCEPT ![t] = a]
  /\ setPc' = [setPc EXCEPT ![t] = start]
  /\ UNCHANGED <<gTimeProvider, gLogger>>
  /\ UNCHANGED threadSafeVars

setTimeProvider(t) ==
  \E a \in TimeProviderArgs : CallSetter(t, "setTimeProvider", a, "if")

setLogger(t) ==
  \E a \in LoggerArgs : CallSetter(t, "setLogger", a, "logger")

\* `if(timeProvider == 0) gTimeProvider = &gNullTimeProvider;`
setTimeProvider_if(t) ==
  /\ setPc[t] = "if"
  /\ gTimeProvider' = IF setArg[t] = nullptr THEN gNullTimeProvider ELSE gTimeProvider
  /\ setPc' = [setPc EXCEPT ![t] = "assign"]
  /\ UNCHANGED <<gLogger, setOp, setArg>>
  /\ UNCHANGED threadSafeVars

\* `gTimeProvider = timeProvider;` and the return
setTimeProvider_assign(t) ==
  /\ setPc[t] = "assign"
  /\ gTimeProvider' = setArg[t]
  /\ setPc' = [setPc EXCEPT ![t] = "idle"]
  /\ UNCHANGED <<gLogger, setOp, setArg>>
  /\ UNCHANGED threadSafeVars

\* `gLogger = logger ? logger : &_nullLogger;` and the return
\* (variant: the argument stored as it is)
setLogger_assignAny(t) ==
  /\ setPc[t] = "logger"
  /\ gLogger' = setArg[t]
  /\ setPc' = [setPc EXCEPT ![t] = "idle"]
  /\ UNCHANGED <<gTimeProvider, setOp, setArg>>
  /\ UNCHANGED threadSafeVars

setLogger_assign(t) ==
  /\ setPc[t] = "logger"
  /\ gLogger' = IF setArg[t] # nullptr THEN setArg[t] ELSE nullLogger
  /\ setPc' = [setPc EXCEPT ![t] = "idle"]
  /\ UNCHANGED <<gTimeProvider, setOp, setArg>>
  /\ UNCHANGED threadSafeVars

StepSetters(t) ==
  \/ setTimeProvider(t)
  \/ setLogger(t)
  \/ setTimeProvider_if(t)
  \/ setTimeProvider_assign(t)
  \/ setLogger_assign(t)

NextSetters == \E t \in Tasks : StepSetters(t)

SpecSetters == Init /\ [][NextSetters]_vars

\* ---------------------------------------------------------------- vocabulary
TryOp == "digitalWriteTry"
GpioCall(t) == pc[t] # "idle" /\ op[t] \in GpioOps \cup {TryOp}
InRange(t) == pin[t] < THREADSAFE_MAX_GPIO_PINS
\* positions at which getGpioLock / analogLock / touchLock has returned
Resolved == {"guard", "hw", "unguard", "tryTake", "tryGive"}
\* positions inside the slow path of getGpioLock
SlowPath == {"tableLock", "tableTake", "recheck", "tableGive"}
\* t is inside the underlying hardware call
InHardware(t) == pc[t] = "hw"
\* the resource class t's call is about
Target(t) == ResourceOf(op[t], pin[t])
\* the mutex t is blocked on in an untimed xSemaphoreTake, NULL if none
WaitsOn(t) ==
  IF pc[t] = "guard" /\ ~inIsr(t) /\ ~IsFree(m[t]) THEN m[t]
  ELSE IF pc[t] = "tableTake" /\ ~IsFree(statics[TableRes]) THEN statics[TableRes]
  ELSE NULL

\* ---------------------------------------------------------------- C1
\* C1: with every caller in task context, no two contexts are inside the
\* hardware call of operations on the same in-range pin, on the ADC or on the
\* touch unit at the same time.
C1_MutualExclusion ==
  \A t, u \in Tasks :
    (t # u /\ InHardware(t) /\ InHardware(u) /\ ~inIsr(t) /\ ~inIsr(u)
       /\ Target(t) # FallbackRes)
      => Target(t) # Target(u)

\* a pinMode is inside its hardware call while a digitalWrite on the same
\* in-range pin waits in its LockGuard
C1_Witness ==
  \E t, u \in Tasks :
    /\ op[t] = "pinMode" /\ InHardware(t) /\ InRange(t)
    /\ op[u] = "digitalWrite" /\ pc[u] = "guard" /\ pin[u] = pin[t]
    /\ m[u] = m[t] /\ owner[m[t]] = t

\* ---------------------------------------------------------------- C2
\* C2: createMutex runs at most once per table slot, a present slot was created
\* exactly once, and every call that resolved an in-range pin got the slot's
\* one mutex, also when several first calls for the pin race.
C2_SingleCreation ==
  /\ \A p \in TablePins :
       /\ createCount[GpioRes(p)] <= 1
       /\ gpioLocks[p] # NULL => gpioLocks[p] = <<"gpio", p, 1>> /\ createCount[GpioRes(p)] = 1
       /\ gpioLocks[p] = NULL => createCount[GpioRes(p)] = 0
  /\ \A t \in Tasks :
       (GpioCall(t) /\ InRange(t) /\ pc[t] \in Resolved) => m[t] = <<"gpio", pin[t], 1>>

\* two first calls for the same absent pin raced into the slow path: one has
\* just created the mutex under the table lock, the other waits for that lock
C2_Witness ==
  \E t, u \in Tasks :
    /\ t # u /\ GpioCall(t) /\ GpioCall(u) /\ pin[t] = pin[u]
    /\ pc[t] = "tableGive" /\ GpioRes(pin[t]) \in created[t]
    /\ pc[u] = "tableTake" /\ WaitsOn(u) = statics[TableRes]

\* ---------------------------------------------------------------- C3
\* C3: while a task holds the mutex of in-range pin B, a GPIO operation on a
\* different in-range pin A is at no point of its execution waiting for a
\* mutex that this task holds.
C3_PerPinIndependence ==
  \A t, u \in Tasks :
    (/\ t # u
     /\ GpioCall(u) /\ InRange(u) /\ pc[u] \in {"hw", "unguard", "tryGive"}
     /\ GpioCall(t) /\ InRange(t) /\ pin[t] # pin[u])
      => (WaitsOn(t) = NULL \/ owner[WaitsOn(t)] # u)

\* two tasks are inside the hardware calls of two different in-range pins at
\* once, each holding its own pin's mutex
C3_Witness ==
  \E t, u \in Tasks :
    /\ GpioCall(t) /\ GpioCall(u) /\ InRange(t) /\ InRange(u) /\ pin[t] # pin[u]
    /\ InHardware(t) /\ InHardware(u)
    /\ owner[m[t]] = t /\ owner[m[u]] = u

\* ---------------------------------------------------------------- C4
\* C4: a GPIO operation on a pin number at or above THREADSAFE_MAX_GPIO_PINS
\* never reaches the code that indexes the table, resolves to the one fallback
\* mutex, and no two such operations are inside their hardware calls together.
C4_FallbackCorrectness ==
  /\ createCount[FallbackRes] <= 1
  /\ \A t \in Tasks :
       (GpioCall(t) /\ ~InRange(t)) =>
         /\ pc[t] \notin SlowPath \cup {"check", "ret"}
         /\ pc[t] \in Resolved => m[t] = statics[FallbackRes] /\ m[t] = <<"fallback", 0, 1>>
  /\ \A t, u \in Tasks :
       (t # u /\ GpioCall(t) /\ GpioCall(u) /\ ~InRange(t) /\ ~InRange(u)
          /\ ~inIsr(t) /\ ~inIsr(u))
         => ~(InHardware(t) /\ InHardware(u))

\* operations on two different out-of-range pins: one is inside its hardware
\* call, the other waits for the fallback mutex
C4_Witness ==
  \E t, u \in Tasks :
    /\ GpioCall(t) /\ GpioCall(u) /\ ~InRange(t) /\ ~InRange(u) /\ pin[t] # pin[u]
    /\ InHardware(t) /\ pc[u] = "guard" /\ WaitsOn(u) = statics[FallbackRes]

\* ---------------------------------------------------------------- C5
\* C5: a task-context digitalWriteTry returns false only from its timed take,
\* with the mutex held by someone else and the ticks used up, after zero
\* hardware writes; it enters the hardware write only by taking the free mutex,
\* performs the write while owning it, and returns true after exactly one
\* write, giving the mutex back in the returning step.
C5_TryStep(t) ==
  /\ (pc[t] = "tryTake" /\ pc'[t] = "idle") =>
       /\ result'[t] = FALSE /\ hwCalls[t] = 0
       /\ ~IsFree(m[t]) /\ ticks[t] = 0
       /\ owner' = owner
  /\ (pc[t] = "tryTake" /\ IsFree(m[t]) /\ pc'[t] # pc[t]) =>
       /\ pc'[t] = "hw" /\ owner'[m[t]] = t
  /\ (pc[t] = "tryTake" /\ pc'[t] = "hw") =>
       /\ IsFree(m[t]) /\ owner'[m[t]] = t
  /\ (pc[t] = "hw" /\ pc'[t] # "hw") =>
       /\ owner[m[t]] = t /\ owner'[m[t]] = t
       /\ hwCalls[t] = 0 /\ hwCalls'[t] = 1 /\ pc'[t] = "tryGive"
  /\ (pc[t] = "tryGive" /\ pc'[t] # "tryGive") =>
       /\ pc'[t] = "idle" /\ result'[t] = TRUE /\ hwCalls[t] = 1
       /\ owner[m[t]] = t /\ owner'[m[t]] = NoOwner
  /\ (pc[t] # "idle" /\ pc'[t] = "idle") => pc[t] \in {"tryTake", "tryGive"}

C5_TimeoutSemantics ==
  [][\A t \in Tasks : (op[t] = TryOp /\ ~inIsr(t)) => C5_TryStep(t)]_vars

\* one digitalWriteTry has returned true and another one has returned false
C5_Witness ==
  \E t, u \in Tasks :
    /\ op[t] = TryOp /\ pc[t] = "idle" /\ result[t] = TRUE /\ ~inIsr(t)
    /\ op[u] = TryOp /\ pc[u] = "idle" /\ result[u] = FALSE /\ ~inIsr(u)

\* ---------------------------------------------------------------- C6
\* C6 as stated: a digitalWriteTry that returns failure has created no mutex,
\* made no hardware write and leaves every mutex with the owner it had.
C6_FailureHasNoSideEffects ==
  [][\A t \in Tasks :
       (op[t] = TryOp /\ pc[t] # "idle" /\ pc'[t] = "idle" /\ result'[t] = FALSE) =>
         /\ created[t] = {}
         /\ hwCalls[t] = 0
         /\ Holds(t) = {}]_vars

\* C6 amended: a digitalWriteTry that returns failure has made no hardware
\* write and holds no mutex; all it can leave behind are the lazily created
\* mutex of its own pin (its table slot or the fallback) and the table lock.
C6_FailureCreatesAtMostOwnLock ==
  [][\A t \in Tasks :
       (op[t] = TryOp /\ pc[t] # "idle" /\ pc'[t] = "idle" /\ result'[t] = FALSE) =>
         /\ created[t] \subseteq {TableRes, Target(t)}
         /\ hwCalls[t] = 0
         /\ Holds(t) = {}
         /\ UNCHANGED lockVars]_vars

\* a digitalWriteTry that created its pin's mutex itself finds it taken by
\* another task with no ticks left: it is about to return failure
C6_Witness ==
  \E t \in Tasks :
    /\ op[t] = TryOp /\ pc[t] = "tryTake" /\ ticks[t] = 0
    /\ Target(t) \in created[t]
    /\ HeldByOther(m[t], t)

\* ---------------------------------------------------------------- C7
\* C7: a digitalWriteTry called from interrupt context never gets past its
\* inIsr() test: it resolves and creates no mutex, owns none, makes no
\* hardware write, and its return value is false.
C7_TryInIsrFailsAtOnce ==
  \A t \in Tasks :
    (op[t] = TryOp /\ inIsr(t)) =>
      /\ pc[t] \in {"tryIsr", "idle"}
      /\ m[t] = NULL /\ created[t] = {} /\ hwCalls[t] = 0 /\ Holds(t) = {}
      /\ pc[t] = "idle" => result[t] = FALSE

\* an interrupt-context digitalWriteTry has returned false while the other
\* context is inside a hardware call
C7_Witness ==
  \E t, u \in Tasks :
    /\ op[t] = TryOp /\ inIsr(t) /\ pc[t] = "idle" /\ result[t] = FALSE
    /\ InHardware(u)

\* ---------------------------------------------------------------- C8
\* C8 as stated: a digitalWriteTry never sits in an untimed wait for a mutex
\* that another context holds.
C8_TryNeverWaitsUntimed ==
  \A t \in Tasks : (op[t] = TryOp /\ pc[t] # "idle") => WaitsOn(t) = NULL

\* ---------------------------------------------------------------- C9
\* C9: whatever lock resolution returned is a created, non-null mutex, the
\* table lock that the slow path takes and gives is one too, a task inside a
\* hardware call owns the mutex it resolved, and a halt leaves the failing
\* caller at the creation whose slot is still empty.
CreationPoint(t) ==
  \/ pc[t] \in {"init", "tableLock"} /\ statics[TableRes] = NULL
  \/ pc[t] = "fallback" /\ statics[FallbackRes] = NULL
  \/ pc[t] = "analogLock" /\ statics[AnalogRes] = NULL
  \/ pc[t] = "touchLock" /\ statics[TouchRes] = NULL
  \/ pc[t] = "recheck" /\ gpioLocks[pin[t]] = NULL

C9_ResolvedLockExists ==
  /\ \A t \in Tasks :
       /\ pc[t] \in Resolved => m[t] # NULL /\ m[t] \in DOMAIN owner
       /\ pc[t] \in {"tableTake", "recheck", "tableGive"} =>
            statics[TableRes] # NULL /\ statics[TableRes] \in DOMAIN owner
       /\ (InHardware(t) /\ ~inIsr(t)) => owner[m[t]] = t
  /\ halted => \E t \in Tasks : CreationPoint(t)

\* a mutex creation failed inside getGpioLock: the process is halted with the
\* caller under the table lock and the slot still empty
C9_Witness ==
  \E t \in Tasks :
    /\ halted /\ pc[t] = "recheck" /\ gpioLocks[pin[t]] = NULL
    /\ owner[statics[TableRes]] = t

\* ---------------------------------------------------------------- C10
\* C10 as stated: a pinMode, digitalWrite, digitalRead, analogRead or
\* touchRead running in interrupt context owns no mutex at any point.
C10_IsrCallTakesNoLock ==
  \A t \in Tasks : (op[t] \in GuardOps /\ inIsr(t) /\ pc[t] # "idle") => Holds(t) = {}


\* ---------------------------------------------------------------- C11
\* C11: a context that is not inside a wrapped call owns no mutex; a mutex
\* changes hands only from free to the context that takes the step, and from
\* its owner to free in a step of that owner.
C11_OwnerStep ==
  \A h \in DOMAIN owner :
    owner'[h] # owner[h] =>
      \/ /\ owner[h] = NoOwner
         /\ owner'[h] \in Tasks
         /\ pc'[owner'[h]] # pc[owner'[h]]
      \/ /\ owner[h] \in Tasks
         /\ owner'[h] = NoOwner
         /\ pc'[owner[h]] # pc[owner[h]]

C11_ScopedRelease ==
  /\ [](\A t \in Tasks : pc[t] = "idle" => Holds(t) = {})
  /\ [][C11_OwnerStep]_vars

\* a digitalWriteTry has returned true and owns nothing, while the other
\* context, done with its hardware call, still owns the mutex its LockGuard took
C11_Witness ==
  \E t, u \in Tasks :
    /\ op[t] = TryOp /\ pc[t] = "idle" /\ result[t] = TRUE /\ Holds(t) = {}
    /\ op[u] \in GuardOps /\ pc[u] = "unguard" /\ Holds(u) = {m[u]}

\* ---------------------------------------------------------------- C12
\* C12: under either GPIO policy every analogRead resolves the one ADC mutex
\* and every touchRead the one touch mutex, whatever the pin argument, and no
\* two analogRead calls and no two touchRead calls are inside their hardware
\* call at the same time.
C12_SingleAdcTouchLock ==
  /\ \A t \in Tasks :
        /\ (op[t] = "analogRead" /\ pc[t] \in Resolved)
             => m[t] = <<"analog", 0, 1>> /\ m[t] = statics[AnalogRes]
        /\ (op[t] = "touchRead" /\ pc[t] \in Resolved)
             => m[t] = <<"touch", 0, 1>> /\ m[t] = statics[TouchRes]
  /\ \A t, u \in Tasks :
        (t # u /\ InHardware(t) /\ InHardware(u) /\ op[t] = op[u])
          => op[t] \notin {"analogRead", "touchRead"}

\* in the global-policy build an analogRead of channel 0 is inside its hardware
\* call while an analogRead of channel 1 waits for the ADC mutex
C12_Witness ==
  \E t, u \in Tasks :
    /\ THREADSAFE_GPIO_GLOBAL_LOCK
    /\ op[t] = "analogRead" /\ pin[t] = 0 /\ InHardware(t)
    /\ op[u] = "analogRead" /\ pin[u] = 1 /\ WaitsOn(u) = m[t]
    /\ m[t] # NULL

\* ---------------------------------------------------------------- C13
\* C13: when init() returns the table mutex exists; the step of init() creates
\* at most the table mutex and changes no mutex's owner; and the table mutex,
\* once created, is never replaced by a later init() or any other operation
\* (it is created at most once).
C13_InitStep ==
  \A t \in Tasks :
    (pc[t] = "init" /\ pc'[t] # "init") =>
      /\ pc'[t] = "idle"
      /\ statics'[TableRes] # NULL
      /\ NewlyCreated \subseteq {TableRes}
      /\ gpioLocks' = gpioLocks
      /\ \A r \in DOMAIN statics \ {TableRes} : statics'[r] = statics[r]
      /\ \A h \in DOMAIN owner : owner'[h] = owner[h]
      /\ Holds(t)' = {}

C13_BootstrapKept ==
  statics[TableRes] # NULL => statics'[TableRes] = statics[TableRes]

C13_InitHook ==
  /\ [](createCount[TableRes] <= 1)
  /\ [][C13_InitStep /\ C13_BootstrapKept]_vars

\* two init() calls have returned, the table mutex was created once and no
\* other mutex exists
C13_Witness ==
  /\ ~halted
  /\ \A t \in Tasks : op[t] = "init" /\ pc[t] = "idle"
  /\ createCount[TableRes] = 1
  /\ statics[TableRes] = <<"table", 0, 1>>
  /\ DOMAIN owner = {statics[TableRes]}

\* ---------------------------------------------------------------- C14
\* C14: in the build with THREADSAFE_GPIO_GLOBAL_LOCK every GPIO call, whatever
\* its pin, resolves the one global mutex; no two task-context GPIO operations
\* are inside their hardware call at the same time; and a GPIO call neither
\* creates nor takes the table mutex, and there is no per-pin table.
C14_GlobalPolicy ==
  /\ THREADSAFE_GPIO_GLOBAL_LOCK
  /\ gpioLocks = <<>>
  /\ \A t \in Tasks :
        /\ (GpioCall(t) /\ pc[t] \in Resolved)
             => m[t] = <<"global", 0, 1>> /\ m[t] = statics[GlobalRes]
        /\ GpioCall(t) => TableRes \notin created[t]
        /\ \A h \in Holds(t) : h[1] # "table"
  /\ \A t, u \in Tasks :
        (t # u /\ InHardware(t) /\ InHardware(u)) => ~(GpioCall(t) /\ GpioCall(u))

\* a pinMode of pin 0 is inside its hardware call while a digitalWrite of an
\* out-of-range pin waits for the same global mutex, and the table mutex was
\* never created
C14_Witness ==
  \E t, u \in Tasks :
    /\ op[t] = "pinMode" /\ pin[t] = 0 /\ InHardware(t)
    /\ op[u] = "digitalWrite" /\ pin[u] >= THREADSAFE_MAX_GPIO_PINS
    /\ WaitsOn(u) = statics[GlobalRes]
    /\ m[t] = statics[GlobalRes]
    /\ statics[TableRes] = NULL

\* ---------------------------------------------------------------- C15
\* the mutex of resource r, NULL while it is not created
C15_LockOf(r) == IF r[1] = "gpio" THEN gpioLocks[r[2]] ELSE statics[r]
\* the mutex t cannot get at the moment: an untimed or a timed take of a held mutex
BlockedOn(t) ==
  IF pc[t] = "tryTake" /\ ~IsFree(m[t]) THEN m[t] ELSE WaitsOn(t)

\* C15: the mutexes of different resources (each table pin, fallback, ADC,
\* touch, table) are different mutexes; an analogRead or touchRead is only ever
\* kept waiting by a call of the same operation, and a GPIO call is never kept
\* waiting by an analogRead or a touchRead.
C15_ClassIndependence ==
  /\ \A r1, r2 \in Resources :
        (r1 # r2 /\ C15_LockOf(r1) # NULL) => C15_LockOf(r1) # C15_LockOf(r2)
  /\ \A t \in Tasks :
        BlockedOn(t) # NULL =>
          LET u == owner[BlockedOn(t)] IN
          /\ u \in Tasks \ {t}
          /\ op[t] \in {"analogRead", "touchRead"} => op[u] = op[t]
          /\ GpioCall(t) => op[u] \notin {"analogRead", "touchRead"}

\* a digitalWrite of pin 1, an analogRead of channel 1 are inside their
\* hardware calls at the same time, each holding its own mutex
C15_Witness ==
  \E t, u \in Tasks :
    /\ op[t] = "digitalWrite" /\ pin[t] = 1 /\ InHardware(t)
    /\ op[u] = "analogRead" /\ pin[u] = 1 /\ InHardware(u)
    /\ Holds(t) = {gpioLocks[1]} /\ Holds(u) = {statics[AnalogRes]}
    /\ gpioLocks[1] # statics[AnalogRes]

\* ---------------------------------------------------------------- C16
\* C16: every table entry starts as nullptr; an entry that holds a mutex keeps
\* that mutex in every step; and a step changes at most the entry of the pin
\* of the call that takes the step, inside the table lock.
C16_TableStep ==
  \A p \in TablePins :
    /\ gpioLocks[p] # NULL => gpioLocks'[p] = gpioLocks[p]
    /\ gpioLocks'[p] # gpioLocks[p] =>
          \E t \in Tasks :
            /\ pc[t] = "recheck" /\ pc'[t] = "tableGive" /\ pin[t] = p
            /\ Holds(t) = {statics[TableRes]}
            /\ \A q \in TablePins \ {p} : gpioLocks'[q] = gpioLocks[q]

C16_TableAppendOnly ==
  /\ \A p \in TablePins : gpioLocks[p] = NULL
  /\ [][C16_TableStep]_vars

\* a call on pin 1 has just stored a new mutex in entry 1 while entry 0 holds
\* the mutex an earlier call created
C16_Witness ==
  \E t \in Tasks :
    /\ pc[t] = "tableGive" /\ pin[t] = 1 /\ GpioRes(1) \in created[t]
    /\ gpioLocks[1] = <<"gpio", 1, 1>>
    /\ gpioLocks[0] = <<"gpio", 0, 1>>

\* ---------------------------------------------------------------- C17
\* C17: a task holds at most one mutex; it holds the table mutex only between
\* the take and the give inside getGpioLock, so never while it takes, holds or
\* waits for a resolved mutex nor inside a hardware call; and, unless a
\* configASSERT has halted the system, whenever a task waits for a mutex the
\* owner of that mutex is another task that is not waiting and has a step
\* to take.
C17_NoNestingNoDeadlock ==
  /\ \A t \in Tasks :
        /\ Cardinality(Holds(t)) <= 1
        /\ statics[TableRes] \in Holds(t) => pc[t] \in {"recheck", "tableGive"}
        /\ InHardware(t) => Holds(t) = {m[t]} /\ m[t] # statics[TableRes]
  /\ ~halted =>
        \A t \in Tasks :
          BlockedOn(t) # NULL =>
            LET u == owner[BlockedOn(t)] IN
            /\ u \in Tasks \ {t}
            /\ pc[u] # "idle"
            /\ BlockedOn(u) = NULL
            /\ ENABLED Step(u, {FALSE})

\* a digitalRead waits for the mutex of pin 0 while the pinMode that holds it,
\* and nothing else, is inside its hardware call; the table mutex is free
C17_Witness ==
  \E t, u \in Tasks :
    /\ ~halted
    /\ op[t] = "pinMode" /\ pin[t] = 0 /\ InHardware(t)
    /\ Holds(t) = {gpioLocks[0]}
    /\ op[u] = "digitalRead" /\ BlockedOn(u) = gpioLocks[0]
    /\ IsFree(statics[TableRes])

\* ---------------------------------------------------------------- C18
\* C18: when a call setTimeProvider(p) returns, gTimeProvider is p if p is not
\* null and is gNullTimeProvider if p is null, so it is not null.
C18_ReturnStep ==
  \A t \in Tasks :
    (setOp[t] = "setTimeProvider" /\ setPc[t] # "idle" /\ setPc'[t] = "idle") =>
      /\ gTimeProvider' # nullptr
      /\ gTimeProvider' = IF setArg[t] # nullptr THEN setArg[t] ELSE gNullTimeProvider

C18_TimeProviderNeverNull == [][C18_ReturnStep]_vars

\* ---------------------------------------------------------------- C19
\* C19: gLogger starts as the serial logger and is never null; when a call
\* setLogger(x) returns, gLogger is x if x is not null and the discard logger
\* if x is null; and gLogger changes in no other step.
C19_ReturnStep ==
  /\ \A t \in Tasks :
        (setOp[t] = "setLogger" /\ setPc[t] # "idle" /\ setPc'[t] = "idle") =>
          gLogger' = IF setArg[t] # nullptr THEN setArg[t] ELSE nullLogger
  /\ gLogger' # gLogger =>
        \E t \in Tasks : setOp[t] = "setLogger" /\ setPc[t] # "idle" /\ setPc'[t] = "idle"

C19_LoggerNeverNull ==
  /\ gLogger = serialLogger
  /\ [](gLogger # nullptr)
  /\ [][C19_ReturnStep]_vars

\* setLogger(nullptr) has returned after a setLogger of a caller's logger, and
\* gLogger is the discard logger
C19_Witness ==
  \E t, u \in Tasks :
    /\ t # u
    /\ setOp[t] = "setLogger" /\ setPc[t] = "idle" /\ setArg[t] = nullptr
    /\ setOp[u] = "setLogger" /\ setPc[u] = "idle" /\ setArg[u] \in UserLoggers
    /\ gLogger = nullLogger

====
